---- MODULE Spec2Model ----
(***************************************************************************)
(* Quill: extraction of a named scope from a text augmented with `@name`   *)
(* declaration lines (src/src/lib.rs).  A text is a sequence of one-       *)
(* character strings; extract_scope is modelled as the state machine of    *)
(* its scanning loop, one step per line.                                   *)
(***************************************************************************)
EXTENDS Integers, Sequences, FiniteSets, TLC

VARIABLES toml_str, scope, pc, lines, current_scopes, include_content,
          line_number, result, ret, prev

vars == <<toml_str, scope, pc, lines, current_scopes, include_content,
          line_number, result, ret, prev>>

(***************************************************************************)
(* Characters and strings                                                  *)
(***************************************************************************)
LF == "\n"
CR == "\r"
AT == "@"

\* char::is_ascii_alphanumeric
AsciiAlphanumeric ==
    { "a", "b", "c", "d", "e", "f", "g", "h", "i", "j", "k", "l", "m",
      "n", "o", "p", "q", "r", "s", "t", "u", "v", "w", "x", "y", "z",
      "A", "B", "C", "D", "E", "F", "G", "H", "I", "J", "K", "L", "M",
      "N", "O", "P", "Q", "R", "S", "T", "U", "V", "W", "X", "Y", "Z",
      "0", "1", "2", "3", "4", "5", "6", "7", "8", "9" }

\* char::is_whitespace, on the ASCII range
IsWhitespace(c) == c \in { " ", "\t", LF, CR, "\f" }

\* str::starts_with(char)
StartsWith(s, c) == Len(s) > 0 /\ s[1] = c

\* str::ends_with(char)
EndsWith(s, c) == Len(s) > 0 /\ s[Len(s)] = c

\* str::find(char): the 0-based offset of the first match, -1 for None
Find(s, c) ==
    IF \E i \in 1..Len(s) : s[i] = c
    THEN (CHOOSE i \in 1..Len(s) :
              s[i] = c /\ \A j \in 1..(i - 1) : s[j] # c) - 1
    ELSE -1

\* Option::unwrap_or
UnwrapOr(opt, default) == IF opt = -1 THEN default ELSE opt

\* str::trim_start
RECURSIVE trim_start(_)
trim_start(s) ==
    IF s # <<>> /\ IsWhitespace(Head(s)) THEN trim_start(Tail(s)) ELSE s

\* str::split_whitespace: the maximal runs of non-whitespace characters
RECURSIVE split_whitespace(_)
split_whitespace(s) ==
    LET t == trim_start(s) IN
    IF t = <<>> THEN <<>>
    ELSE LET stop == IF \E i \in 1..Len(t) : IsWhitespace(t[i])
                     THEN CHOOSE i \in 1..Len(t) :
                              IsWhitespace(t[i])
                              /\ \A j \in 1..(i - 1) : ~IsWhitespace(t[j])
                     ELSE Len(t) + 1
         IN  <<SubSeq(t, 1, stop - 1)>>
                 \o split_whitespace(SubSeq(t, stop, Len(t)))

\* str::split_inclusive('\n'): pieces that keep their terminating '\n'
RECURSIVE split_inclusive(_)
split_inclusive(s) ==
    IF s = <<>> THEN <<>>
    ELSE LET k == Find(s, LF) IN
         IF k = -1 THEN <<s>>
         ELSE <<SubSeq(s, 1, k + 1)>>
                  \o split_inclusive(SubSeq(s, k + 2, Len(s)))

\* str::strip_suffix, keeping the piece when the suffix is absent
StripSuffix(s, c) == IF EndsWith(s, c) THEN SubSeq(s, 1, Len(s) - 1) ELSE s

\* One item of str::lines(): "\n" is stripped, then a "\r" before it; a
\* piece without a final "\n" is returned whole (a bare final "\r" stays).
StripLineEnding(piece) ==
    IF EndsWith(piece, LF) THEN StripSuffix(StripSuffix(piece, LF), CR)
    ELSE piece

\* str::lines()
str_lines(s) ==
    LET pieces == split_inclusive(s) IN
    [i \in 1..Len(pieces) |-> StripLineEnding(pieces[i])]

(***************************************************************************)
(* Scope, QuillError, is_valid_scope_name                                  *)
(***************************************************************************)
GlobalName == <<"g", "l", "o", "b", "a", "l">>

Global == [kind |-> "Global", name |-> <<>>]
DefinedScope(name) == [kind |-> "DefinedScope", name |-> name]

\* impl Into<&str> for Scope
ScopeInto(s) == IF s.kind = "Global" THEN GlobalName ELSE s.name

\* (mutation) the emptiness test is left out
AllCharsAllowed(name) ==
    \A i \in 1..Len(name) :
        name[i] \in AsciiAlphanumeric \/ name[i] = "_" \/ name[i] = "-"

is_valid_scope_name(name) ==
    /\ name # <<>>
    /\ \A i \in 1..Len(name) :
           name[i] \in AsciiAlphanumeric \/ name[i] = "_" \/ name[i] = "-"

NoReturn == [tag |-> "None"]

\* The call made before the current one, when a caller calls twice
NoCall == [called |-> FALSE]
Call(text, sc, returned) ==
    [called |-> TRUE, toml_str |-> text, scope |-> sc, ret |-> returned]
OkReturn(text) == [tag |-> "Ok", text |-> text]
InvalidScopeArgument(name) ==
    [tag |-> "InvalidScopeArgument", scope |-> name]
InvalidScopeName(name, line, column) ==
    [tag |-> "InvalidScopeName", scope |-> name, line |-> line,
     column |-> column]

(***************************************************************************)
(* The pieces of the loop body of extract_scope                            *)
(***************************************************************************)
target_scope == ScopeInto(scope)

\* The target is rejected before the scan
TargetRejected(target) ==
    target # ScopeInto(Global) /\ ~is_valid_scope_name(target)

\* (mutation) every token of the line is taken for a scope name
AllTokenNames(trimmed) ==
    LET tokens == split_whitespace(trimmed) IN
    [i \in 1..Len(tokens) |->
        IF StartsWith(tokens[i], AT) THEN Tail(tokens[i]) ELSE tokens[i]]

\* The names of the `@` tokens of a line, in order: &token[1..]
ScopeNames(trimmed) ==
    LET tokens == split_whitespace(trimmed)
        marked == SelectSeq(tokens, LAMBDA t : StartsWith(t, AT))
    IN  [i \in 1..Len(marked) |-> Tail(marked[i])]

\* (mutation) the names are not validated
NoValidation(names) == 0

\* (mutation) the last refused name is reported instead of the first
LastInvalid(names) ==
    IF \E i \in 1..Len(names) : ~is_valid_scope_name(names[i])
    THEN CHOOSE i \in 1..Len(names) :
             /\ ~is_valid_scope_name(names[i])
             /\ \A j \in (i + 1)..Len(names) : is_valid_scope_name(names[j])
    ELSE 0

\* The token loop stops at the first name the validator refuses: its index
\* among the names, or 0 when every name is valid
FirstInvalid(names) ==
    IF \E i \in 1..Len(names) : ~is_valid_scope_name(names[i])
    THEN CHOOSE i \in 1..Len(names) :
             /\ ~is_valid_scope_name(names[i])
             /\ \A j \in 1..(i - 1) : is_valid_scope_name(names[j])
    ELSE 0

\* (mutation) the column is counted on the trimmed line
ColumnInTrimmed(line) == UnwrapOr(Find(trim_start(line), AT), 0) + 1

\* let column = line.find('@').unwrap_or(0) + 1
Column(line) == UnwrapOr(Find(line, AT), 0) + 1

Contains(seq, x) == \E i \in 1..Len(seq) : seq[i] = x

\* (mutation) a declaration is appended to the active set
MergeScopes(current, scopes) == current \o scopes

\* current_scopes = scopes
ReplaceScopes(current, scopes) == scopes

\* (mutation) the global target gets no special treatment
IncludeUnlessGlobalTarget(scopes, target) ==
    Contains(scopes, target) \/ Contains(scopes, ScopeInto(Global))

\* (mutation) a declared `@global` is not visible to other targets
IncludeUnlessGlobalDeclared(scopes, target) ==
    Contains(scopes, target) \/ target = ScopeInto(Global)

\* (mutation) only the first name of a declaration is compared
IncludeFirstNameOnly(scopes, target) ==
    \/ scopes[1] = target
    \/ Contains(scopes, ScopeInto(Global))
    \/ target = ScopeInto(Global)

\* (mutation) only a declared target is included
IncludeOnlyTarget(scopes, target) == Contains(scopes, target)

\* include_content after a declaration
IncludeDecision(scopes, target) ==
    \/ Contains(scopes, target)
    \/ Contains(scopes, ScopeInto(Global))
    \/ target = ScopeInto(Global)

\* (mutation) the declaration's marker is left in the output
EchoMarker(res) == res \o <<AT, LF>>

\* result after a declaration line
PushDeclaration(res) == res \o <<LF>>

\* result after a content line
PushContent(res, include, line) ==
    (IF include THEN res \o line ELSE res) \o <<LF>>

\* Remove the trailing newline if the original didn't have one
TrailingFix(text, res) ==
    IF ~EndsWith(text, LF) /\ EndsWith(res, LF)
    THEN SubSeq(res, 1, Len(res) - 1)
    ELSE res

(***************************************************************************)
(* Inputs                                                                  *)
(***************************************************************************)
MaxLines == 4
MaxErrLines == 3

\* Lines of well-formed texts: content lines and declaration lines
LinePool ==
    { <<"x">>,
      <<"@", "a">>,
      <<"@", "a", " ", "@", "b">>,
      <<"@", "g", "l", "o", "b", "a", "l">>,
      <<"\t", "@", "g", "l", "o", "b", "a", "l", " ", "@", "b">> }

\* Lines of texts with `@` tokens the validator refuses
ErrLinePool ==
    { <<" ", "y", " ", "@", "!", CR>>,
      <<"@", "a", " ", "x">>,
      <<"@", "b", "a", "d", " ", "s", "c", "o", "p", "e", "!">>,
      <<"@">>,
      <<" ", "@", "a", " ", "@", "!", "b">>,
      <<"\t", " ", "@", "b", "!", " ", "@", "c", "@">> }

RECURSIVE JoinLines(_)
JoinLines(ls) ==
    IF ls = <<>> THEN <<>>
    ELSE IF Len(ls) = 1 THEN ls[1]
    ELSE ls[1] \o <<LF>> \o JoinLines(Tail(ls))

\* The texts of at most n lines of a pool, with and without a final "\n"
TextsOver(pool, n) ==
    { JoinLines(ls) \o tail :
        ls \in UNION { [1..k -> pool] : k \in 0..n },
        tail \in { <<>>, <<LF>> } }

ValidTargets ==
    { Global, DefinedScope(<<"a">>), DefinedScope(<<"b">>),
      DefinedScope(<<"c">>) }

InvalidTargets ==
    { DefinedScope(<<>>), DefinedScope(<<"a", " ", "b">>),
      DefinedScope(<<"b", "!">>) }

(***************************************************************************)
(* extract_scope                                                           *)
(***************************************************************************)
Locals ==
    /\ pc = "start"
    /\ lines = <<>>
    /\ current_scopes = <<>>
    /\ include_content = TRUE
    /\ line_number = 0
    /\ result = <<>>
    /\ ret = NoReturn
    /\ prev = NoCall

Init ==
    /\ toml_str \in TextsOver(LinePool, MaxLines)
    /\ scope \in ValidTargets
    /\ Locals

InitErr ==
    /\ toml_str \in TextsOver(ErrLinePool, MaxErrLines)
    /\ scope \in ValidTargets \cup InvalidTargets
    /\ Locals

\* Validation of the target, then the locals of the scan
Start ==
    /\ pc = "start"
    /\ IF TargetRejected(target_scope)
       THEN /\ ret' = InvalidScopeArgument(target_scope)
            /\ pc' = "done"
            /\ UNCHANGED <<lines, current_scopes>>
       ELSE /\ lines' = str_lines(toml_str)
            /\ current_scopes' = <<ScopeInto(Global)>>
            /\ pc' = "scan"
            /\ ret' = ret
    /\ include_content' = TRUE
    /\ line_number' = 0
    /\ result' = <<>>
    /\ UNCHANGED <<toml_str, scope, prev>>

\* (mutation) tokens are validated only where content is included
ScanLineSkipsExcluded ==
    /\ pc = "scan"
    /\ lines # <<>>
    /\ LET line == Head(lines)
           trimmed == trim_start(line)
           names == IF StartsWith(trimmed, AT) THEN ScopeNames(trimmed)
                    ELSE <<>>
           bad == IF include_content THEN FirstInvalid(names) ELSE 0
       IN  /\ lines' = Tail(lines)
           /\ line_number' = line_number + 1
           /\ IF StartsWith(trimmed, AT) /\ bad # 0
              THEN /\ ret' = InvalidScopeName(names[bad], line_number + 1,
                                               Column(line))
                   /\ pc' = "done"
                   /\ UNCHANGED <<current_scopes, include_content, result>>
              ELSE IF StartsWith(trimmed, AT) /\ names # <<>>
              THEN /\ current_scopes' = ReplaceScopes(current_scopes, names)
                   /\ include_content' =
                          IncludeDecision(current_scopes', target_scope)
                   /\ result' = PushDeclaration(result)
                   /\ UNCHANGED <<pc, ret>>
              ELSE /\ result' = PushContent(result, include_content, line)
                   /\ UNCHANGED <<current_scopes, include_content, pc, ret>>
    /\ UNCHANGED <<toml_str, scope, prev>>

\* One iteration of `while let Some(line) = lines.next()`
ScanLine ==
    /\ pc = "scan"
    /\ lines # <<>>
    /\ LET line == Head(lines)
           trimmed == trim_start(line)
           names == IF StartsWith(trimmed, AT) THEN ScopeNames(trimmed)
                    ELSE <<>>
           bad == FirstInvalid(names)
       IN  /\ lines' = Tail(lines)
           /\ line_number' = line_number + 1
           /\ IF StartsWith(trimmed, AT) /\ bad # 0
              THEN /\ ret' = InvalidScopeName(names[bad], line_number + 1,
                                               Column(line))
                   /\ pc' = "done"
                   /\ UNCHANGED <<current_scopes, include_content, result>>
              ELSE IF StartsWith(trimmed, AT) /\ names # <<>>
              THEN /\ current_scopes' = ReplaceScopes(current_scopes, names)
                   /\ include_content' =
                          IncludeDecision(current_scopes', target_scope)
                   /\ result' = PushDeclaration(result)
                   /\ UNCHANGED <<pc, ret>>
              ELSE /\ result' = PushContent(result, include_content, line)
                   /\ UNCHANGED <<current_scopes, include_content, pc, ret>>
    /\ UNCHANGED <<toml_str, scope, prev>>

\* After the loop: the trailing newline fix and Ok(result)
Finish ==
    /\ pc = "scan"
    /\ lines = <<>>
    /\ result' = TrailingFix(toml_str, result)
    /\ ret' = OkReturn(result')
    /\ pc' = "done"
    /\ UNCHANGED <<toml_str, scope, lines, current_scopes, include_content,
                   line_number, prev>>

Next == Start \/ ScanLine \/ Finish

Spec == Init /\ [][Next]_vars

SpecErr == InitErr /\ [][Next]_vars

(***************************************************************************)
(* A caller that calls extract_scope a second time                         *)
(***************************************************************************)
MaxChars == 4

\* Every text of at most n characters of an alphabet
StringsOver(alphabet, n) == UNION { [1..k -> alphabet] : k \in 0..n }

TextAlphabet == { "x", AT, "a", " ", CR, LF }

InitChars ==
    /\ toml_str \in StringsOver(TextAlphabet, MaxChars)
    /\ scope \in { Global, DefinedScope(<<"a">>), DefinedScope(<<"c">>) }
    /\ Locals

InitOther ==
    /\ toml_str \in TextsOver(ErrLinePool, MaxErrLines)
    /\ scope \in ValidTargets
    /\ Locals

\* The locals of the finished call are dropped
Return ==
    /\ pc' = "start"
    /\ lines' = <<>>
    /\ current_scopes' = <<>>
    /\ include_content' = TRUE
    /\ line_number' = 0
    /\ result' = <<>>
    /\ ret' = NoReturn

\* extract_scope(&extracted, scope): the returned text, the same target
ExtractAgain ==
    /\ pc = "done"
    /\ ~prev.called
    /\ ret.tag = "Ok"
    /\ prev' = Call(toml_str, scope, ret)
    /\ toml_str' = ret.text
    /\ scope' = scope
    /\ Return

\* extract_scope(text, other): the same text, any valid target
ExtractOther ==
    /\ pc = "done"
    /\ ~prev.called
    /\ prev' = Call(toml_str, scope, ret)
    /\ toml_str' = toml_str
    /\ scope' \in ValidTargets
    /\ Return

NextAgain == Start \/ ScanLine \/ Finish \/ ExtractAgain

NextOther == Start \/ ScanLine \/ Finish \/ ExtractOther

SpecAgain == InitChars /\ [][NextAgain]_vars

SpecOther == InitOther /\ [][NextOther]_vars

(***************************************************************************)
(* Vocabulary of the properties                                            *)
(***************************************************************************)
Succeeded == pc = "done" /\ ret.tag = "Ok"

TargetName == IF scope.kind = "Global" THEN GlobalName ELSE scope.name

\* str::split('\n'): the text between the line feeds
RECURSIVE SplitLF(_)
SplitLF(s) ==
    IF \E i \in 1..Len(s) : s[i] = LF
    THEN LET k == CHOOSE i \in 1..Len(s) :
                      s[i] = LF /\ \A j \in 1..(i - 1) : s[j] # LF
         IN  <<SubSeq(s, 1, k - 1)>> \o SplitLF(SubSeq(s, k + 1, Len(s)))
    ELSE <<s>>

\* The first non-whitespace character of the line is `@`
FirstNonBlankIsAt(l) ==
    \E i \in 1..Len(l) :
        l[i] = AT /\ \A j \in 1..(i - 1) : IsWhitespace(l[j])

\* The names written on a line: its `@` tokens without the `@`
NamesOn(l) ==
    LET ts == split_whitespace(l)
        at == SelectSeq(ts, LAMBDA t : t[1] = AT)
    IN  [i \in 1..Len(at) |-> SubSeq(at[i], 2, Len(at[i]))]

Names(seq) == { seq[i] : i \in 1..Len(seq) }

\* A declaration line: its first non-whitespace character is `@` and it
\* carries at least one `@` token
DeclarationLine(l) == FirstNonBlankIsAt(l) /\ NamesOn(l) # <<>>

\* The last declaration line among the first n of the lines ls, 0 when
\* there is none
LastDeclaration(ls, n) ==
    IF \E j \in 1..n : DeclarationLine(ls[j])
    THEN CHOOSE j \in 1..n :
             /\ DeclarationLine(ls[j])
             /\ \A k \in (j + 1)..n : ~DeclarationLine(ls[k])
    ELSE 0

\* What the properties speak of, read off the input and the returned text:
\* the input's lines, which of them are declarations, for each n the last
\* declaration among lines 1..n and the scope names in force after them,
\* and the returned text between its line feeds.
View ==
    LET ls == str_lines(toml_str)
        last == [n \in 0..Len(ls) |-> LastDeclaration(ls, n)]
    IN  [ lines  |-> ls,
          decl   |-> [i \in 1..Len(ls) |-> DeclarationLine(ls[i])],
          last   |-> last,
          active |-> [n \in 0..Len(ls) |->
                         IF last[n] = 0 THEN <<GlobalName>>
                         ELSE NamesOn(ls[last[n]])],
          out    |-> IF ret.tag = "Ok" THEN SplitLF(ret.text) ELSE <<>> ]

ContentLines(v) == { i \in 1..Len(v.lines) : ~v.decl[i] }

\* The names in force at line i: those of the last declaration above it
ActiveAt(v, i) == Names(v.active[i - 1])

\* The last declaration line above line i, 0 when there is none
DeclarationAbove(v, i) == v.last[i - 1]

\* Line i of the returned text is the input's line i / is empty
Kept(v, i) == i <= Len(v.out) /\ v.out[i] = v.lines[i]
Blank(v, i) == i <= Len(v.out) /\ v.out[i] = <<>>

(***************************************************************************)
(* C1..C3                                                                  *)
(***************************************************************************)
\* C1: a successful extraction returns a text with as many lines as the
\* input text, a line being an item of str::lines().
C1_LineCountPreserved ==
    Succeeded => Len(str_lines(ret.text)) = Len(str_lines(toml_str))

\* C2: a successful extraction returns a text that ends with a line
\* terminator exactly when the input text does.
C2_TrailingNewlineMatches ==
    Succeeded => (EndsWith(ret.text, LF) <=> EndsWith(toml_str, LF))

\* C3: extracting Scope::Global keeps exactly the content lines before any
\* declaration and those under a declaration naming global; every other
\* line is blank.
C3_GlobalExtractionOnlyGlobal ==
    Succeeded /\ scope = Global =>
        LET v == View IN
        \A i \in 1..Len(v.lines) :
            IF ~v.decl[i] /\ GlobalName \in ActiveAt(v, i)
            THEN Kept(v, i)
            ELSE Blank(v, i)

C5_GlobalVisibleEverywhere ==
    Succeeded =>
        LET v == View IN
        \A i \in ContentLines(v) :
            GlobalName \in ActiveAt(v, i) => Kept(v, i)

\* A target named nowhere keeps content before the first declaration and
\* content under `@global @b`
C5_Witness ==
    /\ Succeeded
    /\ scope = DefinedScope(<<"c">>)
    /\ LET v == View IN
       \E i, j \in ContentLines(v) :
           /\ DeclarationAbove(v, i) = 0
           /\ DeclarationAbove(v, j) # 0
           /\ ActiveAt(v, j) = { GlobalName, <<"b">> }
           /\ v.lines[i] # <<>> /\ Kept(v, i)
           /\ v.lines[j] # <<>> /\ Kept(v, j)

\* C6: content under a declaration naming two or more scopes is kept when
\* the target is one of them, and blank for a target that is neither named
\* there nor global (the line not naming global either).
C6_MultiNameDeclaration ==
    Succeeded =>
        LET v == View IN
        \A i \in ContentLines(v) :
            DeclarationAbove(v, i) # 0 /\ Len(v.active[i - 1]) >= 2 =>
                /\ TargetName \in ActiveAt(v, i) => Kept(v, i)
                /\ ( /\ TargetName \notin ActiveAt(v, i)
                     /\ TargetName # GlobalName
                     /\ GlobalName \notin ActiveAt(v, i) ) => Blank(v, i)

\* Extracting b keeps the content under `@a @b`
C6_Witness ==
    /\ Succeeded
    /\ scope = DefinedScope(<<"b">>)
    /\ LET v == View IN
       \E i \in ContentLines(v) :
           /\ DeclarationAbove(v, i) # 0
           /\ v.active[i - 1] = << <<"a">>, <<"b">> >>
           /\ v.lines[i] # <<>>
           /\ Kept(v, i)

\* C7: the active scope set is always exactly the names of the last
\* declaration line scanned (global before the first), so content under a
\* later declaration is blank for a target only an earlier one named.
C7_DeclarationReplaces ==
    /\ (pc = "scan" \/ Succeeded) =>
           LET ls == str_lines(toml_str)
               d == LastDeclaration(ls, line_number)
           IN  current_scopes =
                   IF d = 0 THEN <<GlobalName>> ELSE NamesOn(ls[d])
    /\ Succeeded =>
           LET v == View IN
           \A i \in ContentLines(v) :
               ( /\ DeclarationAbove(v, i) # 0
                 /\ TargetName \notin ActiveAt(v, i)
                 /\ TargetName # GlobalName
                 /\ GlobalName \notin ActiveAt(v, i) ) => Blank(v, i)

\* b is declared, a later declaration omits it, and the content under the
\* later one is blank when extracting b
C7_Witness ==
    /\ Succeeded
    /\ scope = DefinedScope(<<"b">>)
    /\ current_scopes = << <<"a">> >>
    /\ LET v == View IN
       \E i \in ContentLines(v) :
           LET d == DeclarationAbove(v, i) IN
           /\ d # 0
           /\ \E e \in 1..(d - 1) :
                  v.decl[e] /\ <<"b">> \in Names(NamesOn(v.lines[e]))
           /\ ActiveAt(v, i) = { <<"a">> }
           /\ v.lines[i] # <<>>
           /\ Blank(v, i)

(***************************************************************************)
(* C8..C10                                                                 *)
(***************************************************************************)
\* The character-set rule: non-empty, only ASCII letters, digits, `_`, `-`
WellFormedName(n) ==
    n # <<>> /\ Names(n) \subseteq (AsciiAlphanumeric \cup { "_", "-" })

ValidTarget == TargetName = GlobalName \/ WellFormedName(TargetName)

\* A line whose first non-whitespace character is `@` and that carries an
\* `@` token whose name breaks the rule
FailingLine(l) ==
    FirstNonBlankIsAt(l) /\ \E n \in Names(NamesOn(l)) : ~WellFormedName(n)

\* The first failing line of ls, 0 when there is none
FirstFailingLine(ls) ==
    IF \E i \in 1..Len(ls) : FailingLine(ls[i])
    THEN CHOOSE i \in 1..Len(ls) :
             FailingLine(ls[i]) /\ \A j \in 1..(i - 1) : ~FailingLine(ls[j])
    ELSE 0

\* The name of the leftmost `@` token of l that breaks the rule
LeftmostFailingName(l) ==
    LET ns == NamesOn(l)
        k == CHOOSE i \in 1..Len(ns) :
                 /\ ~WellFormedName(ns[i])
                 /\ \A j \in 1..(i - 1) : WellFormedName(ns[j])
    IN  ns[k]

\* The 1-indexed position of the first `@` of the raw line l
FirstAtColumn(l) ==
    CHOOSE i \in 1..Len(l) : l[i] = AT /\ \A j \in 1..(i - 1) : l[j] # AT

\* C8: a target that is not "global" and breaks the character-set rule is
\* answered with InvalidScopeArgument carrying it, whatever the text holds,
\* and no line is scanned.
C8_InvalidTargetRejected ==
    ~ValidTarget /\ pc # "start" =>
        /\ pc = "done"
        /\ ret = [tag |-> "InvalidScopeArgument", scope |-> TargetName]
        /\ line_number = 0
        /\ lines = <<>>
        /\ result = <<>>

\* A target with a space is rejected though the first line of the text
\* holds an `@` token that breaks the rule
C8_Witness ==
    /\ pc = "done"
    /\ ret = [tag |-> "InvalidScopeArgument", scope |-> <<"a", " ", "b">>]
    /\ FirstFailingLine(str_lines(toml_str)) = 1

\* C9: with a valid target, the first failing line ends the extraction with
\* InvalidScopeName carrying the leftmost failing name of that line, its
\* 1-indexed number and the 1-indexed column of the first `@` of the raw
\* line; no text is returned, and without a failing line there is no such
\* error.
C9_FirstInvalidTokenReported ==
    ValidTarget =>
        LET ls == str_lines(toml_str)
            f == FirstFailingLine(ls)
        IN  /\ (pc = "done" /\ f # 0) =>
                   ret = [tag |-> "InvalidScopeName",
                          scope |-> LeftmostFailingName(ls[f]),
                          line |-> f,
                          column |-> FirstAtColumn(ls[f])]
            /\ (pc = "scan" /\ f # 0) => line_number < f
            /\ f = 0 => ret.tag # "InvalidScopeName"

\* The error is raised on a later line, by a token that is not the first of
\* its line, behind leading whitespace
C9_Witness ==
    /\ pc = "done"
    /\ ValidTarget
    /\ ret.tag = "InvalidScopeName"
    /\ ret.scope = <<"!", "b">>
    /\ ret.line = 3
    /\ ret.column = 2

BadScopeLine == <<"@", "b", "a", "d", " ", "s", "c", "o", "p", "e", "!">>

\* C10 as stated: a text with the line `@bad scope!` is answered, for any
\* valid target, with InvalidScopeName reporting that line's number and the
\* column of its `@` (read here for the texts in which no other line could
\* be the one reported).
C10_BadScopeLineRejected ==
    (pc = "done" /\ ValidTarget) =>
        LET ls == str_lines(toml_str) IN
        \A k \in 1..Len(ls) :
            (ls[k] = BadScopeLine /\ FirstFailingLine(ls) = 0) =>
                /\ ret.tag = "InvalidScopeName"
                /\ ret.line = k
                /\ ret.column = 1

\* C10, amended: the line `@bad scope!` is a declaration of `bad` (`scope!`
\* has no leading `@` and is ignored) and is emitted empty; the extraction
\* succeeds unless another line holds a failing `@` token, and then
\* InvalidScopeName reports that other line and the column of its first
\* `@`, with no text returned.
C10_BadScopeLineDeclares ==
    ValidTarget =>
        LET ls == str_lines(toml_str)
            f == FirstFailingLine(ls)
        IN  \A k \in 1..Len(ls) :
                ls[k] = BadScopeLine =>
                    /\ (pc = "scan" /\ line_number = k) =>
                           /\ current_scopes = << <<"b", "a", "d">> >>
                           /\ ret = NoReturn
                    /\ (pc = "done" /\ f = 0) =>
                           /\ ret.tag = "Ok"
                           /\ Blank(View, k)
                    /\ (pc = "done" /\ f # 0) =>
                           /\ ret.tag = "InvalidScopeName"
                           /\ ret.line = f
                           /\ f # k
                           /\ ret.column = FirstAtColumn(ls[f])

\* A text with `@bad scope!` and content under it is extracted
C10_Witness ==
    /\ Succeeded
    /\ current_scopes = << <<"b", "a", "d">> >>
    /\ LET ls == str_lines(toml_str) IN
       /\ Len(ls) >= 2
       /\ ls[1] = BadScopeLine
       /\ ~DeclarationLine(ls[2])

(***************************************************************************)
(* C11..C20                                                                *)
(***************************************************************************)
\* C11: extracting again from the returned text, with the same target,
\* succeeds and returns the same text.
C11_Idempotent ==
    (prev.called /\ pc = "done") => ret = prev.ret

\* Idempotence does hold for the texts in which no line ends with a
\* carriage return before its "\r\n" terminator
C11_IdempotentWithoutDoubleCR ==
    LET t == prev.toml_str IN
    ( /\ prev.called
      /\ pc = "done"
      /\ ~\E i \in 1..(Len(t) - 2) :
             t[i] = CR /\ t[i + 1] = CR /\ t[i + 2] = LF ) => ret = prev.ret

\* A line that starts with `@` and whose `@` tokens are all a bare `@`
LoneAtLine(l) ==
    FirstNonBlankIsAt(l) /\ \A n \in Names(NamesOn(l)) : n = <<>>

\* C12: a line that starts with `@` and holds no well-formed `@token`, such
\* as a lone `@`, raises no error (it is treated as content); stated for
\* the texts whose only candidates for an error are lone `@` lines.
C12_LoneAtIsContent ==
    (pc = "done" /\ ValidTarget) =>
        LET ls == str_lines(toml_str) IN
        (\A i \in 1..Len(ls) : FailingLine(ls[i]) => LoneAtLine(ls[i]))
            => ret.tag = "Ok"

\* (C13) the lines of ls that hold a failing `@` token
FailingLines(ls) == { i \in 1..Len(ls) : FailingLine(ls[i]) }

\* C13: with several failing lines the error is that of the earliest one
\* and names its leftmost failing token, for every valid target and also
\* when that line lies in a region excluded for the target; a text without
\* a failing line is extracted.
C13_FirstViolationWins ==
    (pc = "done" /\ ValidTarget) =>
        LET ls == str_lines(toml_str)
            failing == FailingLines(ls)
        IN  IF failing = {} THEN ret.tag = "Ok"
            ELSE /\ ret.tag = "InvalidScopeName"
                 /\ ret.line \in failing
                 /\ \A i \in failing : ret.line <= i
                 /\ LET ns == NamesOn(ls[ret.line]) IN
                    \E k \in 1..Len(ns) :
                        /\ ns[k] = ret.scope
                        /\ ~WellFormedName(ns[k])
                        /\ \A j \in 1..(k - 1) : WellFormedName(ns[j])

\* Two failing lines; the first lies under `@a x`, excluded for target c,
\* and holds two failing tokens, the leftmost being `@b!`
C13_Witness ==
    /\ pc = "done"
    /\ scope = DefinedScope(<<"c">>)
    /\ include_content = FALSE
    /\ Cardinality(FailingLines(str_lines(toml_str))) >= 2
    /\ ret = [tag |-> "InvalidScopeName", scope |-> <<"b", "!">>,
              line |-> 2, column |-> 3]

Terminator(piece) ==
    IF EndsWith(piece, LF)
    THEN IF EndsWith(SubSeq(piece, 1, Len(piece) - 1), CR)
         THEN <<CR, LF>> ELSE <<LF>>
    ELSE <<>>

\* The piece without its terminator
Body(piece) == SubSeq(piece, 1, Len(piece) - Len(Terminator(piece)))

\* C15: output line i is input line i when that is an included content
\* line and empty otherwise, and keeps the input line's terminator; stated
\* for the texts that end with a line feed.
C15_LinesVerbatimOrEmpty ==
    (Succeeded /\ EndsWith(toml_str, LF)) =>
        LET inP == split_inclusive(toml_str)
            outP == split_inclusive(ret.text)
            v == View
        IN  /\ Len(outP) = Len(inP)
            /\ \A i \in 1..Len(inP) :
                   /\ Terminator(outP[i]) = Terminator(inP[i])
                   /\ Body(outP[i]) =
                          IF /\ ~v.decl[i]
                             /\ \/ TargetName \in ActiveAt(v, i)
                                \/ GlobalName \in ActiveAt(v, i)
                                \/ TargetName = GlobalName
                          THEN Body(inP[i])
                          ELSE <<>>

\* C16: during the scan the active scope set is never empty: it is
\* ["global"] before the first line, and every list assigned to it is
\* non-empty and holds only names the validator accepts.
C16_ActiveNeverEmpty ==
    (pc = "scan" \/ (pc = "done" /\ ret.tag # "InvalidScopeArgument")) =>
        /\ current_scopes # <<>>
        /\ \A n \in Names(current_scopes) : WellFormedName(n)
        /\ line_number = 0 => current_scopes = <<GlobalName>>

\* A lone `@` on line 3 is refused while the set declared on line 1 stands
C16_Witness ==
    /\ pc = "done"
    /\ ret = [tag |-> "InvalidScopeName", scope |-> <<>>, line |-> 3,
              column |-> 1]
    /\ current_scopes = << <<"a">> >>
    /\ DeclarationLine(str_lines(toml_str)[1])

\* C17: at the start of every line include_content is true exactly when
\* current_scopes contains the target name or "global", or the target is
\* "global".
C17_FlagFollowsScopes ==
    pc = "scan" =>
        ( include_content <=>
              \/ TargetName \in Names(current_scopes)
              \/ GlobalName \in Names(current_scopes)
              \/ TargetName = GlobalName )

\* The flag is false before a line under a declaration that names neither
\* the target nor global, after content was kept while it was true
C17_Witness ==
    /\ pc = "scan"
    /\ lines # <<>>
    /\ line_number >= 2
    /\ ~include_content
    /\ \E j \in 1..Len(result) : result[j] = "x"
    /\ TargetName \notin Names(current_scopes)

\* C18: no line of a returned text has `@` as its first non-whitespace
\* character.
C18_NoDeclarationInOutput ==
    Succeeded =>
        LET out == str_lines(ret.text) IN
        \A i \in 1..Len(out) : ~FirstNonBlankIsAt(out[i])

\* A text with a declaration line is extracted, the returned text holding
\* an `@` that is not the first non-whitespace character of its line
C18_Witness ==
    /\ Succeeded
    /\ \E i \in 1..Len(str_lines(toml_str)) :
           DeclarationLine(str_lines(toml_str)[i])
    /\ \E j \in 1..Len(ret.text) : ret.text[j] = AT

\* C19: a text in which no line has `@` as its first non-whitespace
\* character is returned unchanged, terminators and final newline included.
C19_NoMarkerTextUnchanged ==
    LET ls == str_lines(toml_str) IN
    (Succeeded /\ \A i \in 1..Len(ls) : ~FirstNonBlankIsAt(ls[i]))
        => ret.text = toml_str

\* C20: for two valid targets and one text, both calls succeed or both
\* return the same InvalidScopeName error.
C20_FailureIndependentOfTarget ==
    (prev.called /\ pc = "done") =>
        \/ prev.ret.tag = "Ok" /\ ret.tag = "Ok"
        \/ prev.ret.tag = "InvalidScopeName" /\ ret = prev.ret

\* The failing line lies under `@a x`: included for a, excluded for c, and
\* both calls report it alike
C20_Witness ==
    /\ prev.called
    /\ pc = "done"
    /\ prev.scope = DefinedScope(<<"a">>)
    /\ scope = DefinedScope(<<"c">>)
    /\ ~include_content
    /\ ret.tag = "InvalidScopeName"
    /\ ret.line >= 2
    /\ ret = prev.ret

====
